---- MODULE Spec2Model ----
(***************************************************************************)
(* Model of notion.py: NotionBackup.get_all_pages (tree builder),          *)
(* NotionBackup.backup_page (recursive mirror writer),                     *)
(* NotionBackup.run_backup (top-level driver) and                          *)
(* NotionBackup.create_folder (find-or-create of a Drive folder).          *)
(*                                                                         *)
(* Page identifiers are the naturals 1..n in discovery order (the order    *)
(* in which notion.search returns the pages, which is the insertion order  *)
(* of page_dict).  Drive is a set of file entries.                         *)
(***************************************************************************)
EXTENDS Integers, Sequences, FiniteSets, TLC

\* ---------------------------------------------------------------- bounds
MaxRecords == 3      \* at most this many pages are returned by the search
PageSize == 2        \* pages per search response
MaxCalls == 3        \* create_folder calls of the sequential Drive spec
MaxConcCalls == 1    \* create_folder calls per process of the concurrent one

\* ------------------------------------------------------------- encodings
NoParent == 0        \* page.get('parent', {}).get('page_id') is None
EmptyParent == -2    \* a parent page_id that is the empty string
MissingId == -1      \* a parent page_id that is not among the fetched pages
DriveRoot == 0       \* self.root_folder_id
NoFolder == -1       \* folder_id before create_folder has returned
Untitled == 0        \* the placeholder title 'Untitled' of get_page_title
Procs == {1, 2}      \* the processes of the Drive specifications

VARIABLES
    records,             \* what notion.search will return: Seq of [parent, title]
    pc,                  \* position of run_backup
    pages,               \* get_all_pages: ids collected by the first pass
    children,            \* page_dict[id]['children'], as a sequence of ids
    root_pages,          \* the list returned by get_all_pages
    drive,               \* the files held by Google Drive
    nextId,              \* next file id Drive hands out
    backup_folder_id,    \* run_backup: id of the main backup folder
    rootIdx,             \* run_backup: number of roots already taken by the for loop
    stack,               \* activation records of backup_page, innermost last
    successful_backups,
    failed_backups,
    folder_cache,        \* self.folder_cache, as a set of <<page_id, folder_id>>
    invoked,             \* history: backup_page calls [page, parent, depth], in call order
    returned,            \* history: pages whose backup_page returned folder_name
    raised,              \* history: pages whose backup_page raised
    createFailed,        \* history: pages whose own create_folder raised
    contentFailed,       \* history: pages whose content fetch or upload raised
    procs,               \* Drive specs: per process [pc, name, parent, result]
    cfcalls              \* Drive specs: completed create_folder calls

vars == <<records, pc, pages, children, root_pages, drive, nextId,
          backup_folder_id, rootIdx, stack, successful_backups,
          failed_backups, folder_cache, invoked, returned, raised,
          createFailed, contentFailed, procs, cfcalls>>

runVars == <<records, pc, pages, children, root_pages, backup_folder_id,
             rootIdx, stack, successful_backups, failed_backups,
             folder_cache, invoked, returned, raised, createFailed,
             contentFailed>>

histVars == <<invoked, returned, raised, createFailed, contentFailed>>

\* ------------------------------------------------------------ Drive names
\* f"{page_title}_{date}", f"Notion_Backup_{timestamp}" and
\* f"{page_title}_content_{timestamp}.json": three formats that never
\* coincide, each injective in the title for the date of the run.
FolderName(title) == [kind |-> "page", title |-> title]
BackupFolderName == [kind |-> "main", title |-> 0]
ContentName(title) == [kind |-> "content", title |-> title]

Folder(id, name, parent) ==
    [id |-> id, name |-> name, parent |-> parent, folder |-> TRUE,
     trashed |-> FALSE, content |-> 0]

Artifact(id, name, parent, page) ==
    [id |-> id, name |-> name, parent |-> parent, folder |-> FALSE,
     trashed |-> FALSE, content |-> page]

\* --------------------------------------------------------- create_folder
\* files().list(q = name = .. and parent in parents and mimeType = folder
\* and trashed = false): the ids of the matching entries.
LookupResult_None(d, name, parent) == {}

LookupResult(d, name, parent) ==
    {e.id : e \in {f \in d : /\ f.name = name
                             /\ f.parent = parent
                             /\ f.folder
                             /\ ~f.trashed}}

\* files().create(body = folder_metadata): Drive adds a folder, whatever
\* it already holds.
DriveCreate_IfAbsent(d, id, name, parent) ==
    IF LookupResult(d, name, parent) = {} THEN d \cup {Folder(id, name, parent)}
    ELSE d

DriveCreate(d, id, name, parent) == d \cup {Folder(id, name, parent)}

\* The successful outcomes of one create_folder call run without
\* interference: the returned id and the Drive state it leaves.
create_folder(d, nid, name, parent) ==
    IF LookupResult(d, name, parent) # {}
    THEN {[id |-> i, drive |-> d, nextId |-> nid] :
              i \in LookupResult(d, name, parent)}
    ELSE {[id |-> nid, drive |-> DriveCreate(d, nid, name, parent),
           nextId |-> nid + 1]}

\* --------------------------------------------------------- get_all_pages
\* The parent ids that "if parent_id:" (line 110) takes for false.
Falsy == {NoParent, EmptyParent}

\* Second pass (lines 106-116) over page_dict.items() in insertion order.
\* acc = [children, roots].
RECURSIVE SecondPass_AlsoRoot(_, _, _, _)
SecondPass_AlsoRoot(ids, recs, dict, acc) ==
    IF ids = <<>> THEN acc
    ELSE LET id == Head(ids)
             parent_id == recs[id].parent
             ch == IF parent_id \notin Falsy /\ parent_id \in dict
                   THEN [acc.children EXCEPT ![parent_id] = Append(@, id)]
                   ELSE acc.children
         IN SecondPass_AlsoRoot(Tail(ids), recs, dict,
                [children |-> ch, roots |-> Append(acc.roots, id)])

RECURSIVE SecondPass(_, _, _, _)
SecondPass(ids, recs, dict, acc) ==
    IF ids = <<>> THEN acc
    ELSE LET id == Head(ids)
             parent_id == recs[id].parent
         IN IF parent_id \notin Falsy
            THEN IF parent_id \in dict
                 THEN SecondPass(Tail(ids), recs, dict,
                          [acc EXCEPT !.children[parent_id] = Append(@, id)])
                 ELSE SecondPass(Tail(ids), recs, dict, acc)
            ELSE SecondPass(Tail(ids), recs, dict,
                     [acc EXCEPT !.roots = Append(@, id)])

\* The hierarchy built from the collected pages.
BuildHierarchy(ps, recs) ==
    LET dict == {ps[i] : i \in 1..Len(ps)}
    IN SecondPass(ps, recs, dict,
           [children |-> [i \in dict |-> <<>>], roots |-> <<>>])

\* ------------------------------------------------------------------ Init
\* A page is what the code reads of it: its parent page_id and the title
\* get_page_title extracts, which is the page's own title (pairwise
\* distinct here) or the placeholder.
RecordSet(n) ==
    {r \in [1..n -> [parent : {NoParent, EmptyParent, MissingId} \cup (1..n),
                     title : {Untitled} \cup (1..n)]] :
        \A i \in 1..n : r[i].title \in {Untitled, i}}

InitRun ==
    /\ \E n \in 0..MaxRecords : records \in RecordSet(n)
    /\ pc = "start"
    /\ pages = <<>>
    /\ children = <<>>
    /\ root_pages = <<>>
    /\ drive = {}
    /\ nextId = 1
    /\ backup_folder_id = NoFolder
    /\ rootIdx = 0
    /\ stack = <<>>
    /\ successful_backups = 0
    /\ failed_backups = 0
    /\ folder_cache = {}
    /\ invoked = <<>>
    /\ returned = {}
    /\ raised = {}
    /\ createFailed = {}
    /\ contentFailed = {}
    /\ procs = <<>>
    /\ cfcalls = <<>>

Init == InitRun

\* ------------------------------------------ run_backup: get_all_pages()
Batch(from) ==
    [i \in 1..(IF Len(records) - from < PageSize THEN Len(records) - from
               ELSE PageSize) |-> from + i]

\* One successful notion.search response (lines 74-81, 96-104) and the
\* loop body that collects it; the response without has_more ends the
\* first pass, and the second pass follows at once.
Search ==
    /\ pc \in {"start", "search"}
    /\ LET ps == pages \o Batch(Len(pages))
       IN /\ pages' = ps
          /\ IF Len(ps) < Len(records)
             THEN /\ pc' = "search"
                  /\ UNCHANGED <<children, root_pages>>
             ELSE /\ pc' = "mkmain"
                  /\ children' = BuildHierarchy(ps, records).children
                  /\ root_pages' = BuildHierarchy(ps, records).roots
    /\ UNCHANGED <<records, drive, nextId, backup_folder_id, rootIdx, stack,
                   successful_backups, failed_backups, folder_cache,
                   histVars, procs, cfcalls>>

\* notion.search raises: line 119 re-raises, line 198 prints "Backup failed".
SearchFail ==
    /\ pc \in {"start", "search"}
    /\ pc' = "failed"
    /\ UNCHANGED <<records, pages, children, root_pages, drive, nextId,
                   backup_folder_id, rootIdx, stack, successful_backups,
                   failed_backups, folder_cache, histVars, procs, cfcalls>>

\* ------------------------------------- run_backup: the main backup folder
CreateMainFolder ==
    /\ pc = "mkmain"
    /\ \E r \in create_folder(drive, nextId, BackupFolderName, DriveRoot) :
          /\ backup_folder_id' = r.id
          /\ drive' = r.drive
          /\ nextId' = r.nextId
    /\ pc' = "loop"
    /\ UNCHANGED <<records, pages, children, root_pages, rootIdx, stack,
                   successful_backups, failed_backups, folder_cache,
                   histVars, procs, cfcalls>>

CreateMainFolderFail ==
    /\ pc = "mkmain"
    /\ pc' = "failed"
    /\ UNCHANGED <<records, pages, children, root_pages, drive, nextId,
                   backup_folder_id, rootIdx, stack, successful_backups,
                   failed_backups, folder_cache, histVars, procs, cfcalls>>

\* ----------------------------------------------------------- backup_page
Top == stack[Len(stack)]

Frame(page, parent) ==
    [page |-> page, parent |-> parent, folder |-> NoFolder, pc |-> "create",
     child |-> 0]

\* The stack after the innermost backup_page raised (lines 166-167): the
\* exception is caught by the handler of the immediate caller, the child
\* loop of the enclosing backup_page (lines 161-162) or the root loop of
\* run_backup (lines 188-190).
Unwind_All(stk) == <<>>

Unwind(stk) == SubSeq(stk, 1, Len(stk) - 1)

\* The stack after create_folder raised at line 130: the outer handler
\* re-raises, so the frame is left.
OnCreateFolderException_Swallow(stk) == [stk EXCEPT ![Len(stk)].pc = "children"]

OnCreateFolderException(stk) == Unwind(stk)

\* The frame after the inner handler (lines 154-155) caught a failure of
\* blocks.children.list or of the upload: execution continues at line 158.
AfterContentException_SkipChildren(f) ==
    [f EXCEPT !.pc = "children", !.child = Len(children[f.page])]

AfterContentException(f) == [f EXCEPT !.pc = "children"]

\* Where run_backup continues after backup_page raised for a root.
PcAfterRootException_Abort == "failed"

PcAfterRootException == "loop"

\* The root loop takes the next root (line 183) and calls backup_page.
CallRoot ==
    /\ pc = "loop"
    /\ stack = <<>>
    /\ rootIdx < Len(root_pages)
    /\ rootIdx' = rootIdx + 1
    /\ stack' = <<Frame(root_pages[rootIdx + 1], backup_folder_id)>>
    /\ invoked' = Append(invoked, [page |-> root_pages[rootIdx + 1],
                                   parent |-> backup_folder_id, depth |-> 1])
    /\ UNCHANGED <<records, pc, pages, children, root_pages, drive, nextId,
                   backup_folder_id, successful_backups, failed_backups,
                   folder_cache, returned, raised, createFailed,
                   contentFailed, procs, cfcalls>>

\* Lines 129-131: create_folder returns, the id is cached.
CreateFolderOK ==
    /\ pc = "loop"
    /\ stack # <<>>
    /\ Top.pc = "create"
    /\ \E r \in create_folder(drive, nextId,
                               FolderName(records[Top.page].title), Top.parent) :
          /\ drive' = r.drive
          /\ nextId' = r.nextId
          /\ stack' = [stack EXCEPT ![Len(stack)].folder = r.id,
                                    ![Len(stack)].pc = "content"]
          /\ folder_cache' = {c \in folder_cache : c[1] # Top.page}
                                 \cup {<<Top.page, r.id>>}
    /\ UNCHANGED <<records, pc, pages, children, root_pages,
                   backup_folder_id, rootIdx, successful_backups,
                   failed_backups, histVars, procs, cfcalls>>

\* Line 130 raises (lines 52-53), lines 166-167 re-raise to the caller.
CreateFolderFail ==
    /\ pc = "loop"
    /\ stack # <<>>
    /\ Top.pc = "create"
    /\ createFailed' = createFailed \cup {Top.page}
    /\ stack' = OnCreateFolderException(stack)
    /\ IF Len(stack') < Len(stack)
       THEN /\ raised' = raised \cup {Top.page}
            /\ IF stack' = <<>>
               THEN /\ failed_backups' = failed_backups + 1
                    /\ pc' = PcAfterRootException
               ELSE UNCHANGED <<failed_backups, pc>>
       ELSE UNCHANGED <<raised, failed_backups, pc>>
    /\ UNCHANGED <<records, pages, children, root_pages, drive, nextId,
                   backup_folder_id, rootIdx, successful_backups,
                   folder_cache, invoked, returned, contentFailed, procs,
                   cfcalls>>

\* Lines 135-153: the content is fetched, serialised and uploaded.
UploadContent ==
    /\ pc = "loop"
    /\ stack # <<>>
    /\ Top.pc = "content"
    /\ drive' = drive \cup {Artifact(nextId,
                                     ContentName(records[Top.page].title),
                                     Top.folder, Top.page)}
    /\ nextId' = nextId + 1
    /\ stack' = [stack EXCEPT ![Len(stack)].pc = "children"]
    /\ UNCHANGED <<records, pc, pages, children, root_pages,
                   backup_folder_id, rootIdx, successful_backups,
                   failed_backups, folder_cache, histVars, procs, cfcalls>>

\* Line 135 raises: caught at line 154.
FetchContentFail ==
    /\ pc = "loop"
    /\ stack # <<>>
    /\ Top.pc = "content"
    /\ contentFailed' = contentFailed \cup {Top.page}
    /\ stack' = [stack EXCEPT ![Len(stack)] = AfterContentException(@)]
    /\ UNCHANGED <<records, pc, pages, children, root_pages, drive, nextId,
                   backup_folder_id, rootIdx, successful_backups,
                   failed_backups, folder_cache, invoked, returned, raised,
                   createFailed, procs, cfcalls>>

\* Lines 149-153 raise: caught at line 154, nothing was stored.
UploadFail ==
    /\ pc = "loop"
    /\ stack # <<>>
    /\ Top.pc = "content"
    /\ contentFailed' = contentFailed \cup {Top.page}
    /\ stack' = [stack EXCEPT ![Len(stack)] = AfterContentException(@)]
    /\ UNCHANGED <<records, pc, pages, children, root_pages, drive, nextId,
                   backup_folder_id, rootIdx, successful_backups,
                   failed_backups, folder_cache, invoked, returned, raised,
                   createFailed, procs, cfcalls>>

\* Lines 158-160: the child loop calls backup_page for the next child.
CallChild ==
    /\ pc = "loop"
    /\ stack # <<>>
    /\ Top.pc = "children"
    /\ Top.child < Len(children[Top.page])
    /\ LET c == children[Top.page][Top.child + 1]
       IN /\ stack' = Append([stack EXCEPT ![Len(stack)].child = @ + 1],
                             Frame(c, Top.folder))
          /\ invoked' = Append(invoked, [page |-> c, parent |-> Top.folder,
                                         depth |-> Len(stack) + 1])
    /\ UNCHANGED <<records, pc, pages, children, root_pages, drive, nextId,
                   backup_folder_id, rootIdx, successful_backups,
                   failed_backups, folder_cache, returned, raised,
                   createFailed, contentFailed, procs, cfcalls>>

\* Line 164: the child loop is exhausted, backup_page returns folder_name;
\* for a root, run_backup counts it (line 187).
Return ==
    /\ pc = "loop"
    /\ stack # <<>>
    /\ Top.pc = "children"
    /\ Top.child >= Len(children[Top.page])
    /\ stack' = SubSeq(stack, 1, Len(stack) - 1)
    /\ returned' = returned \cup {Top.page}
    /\ successful_backups' = IF Len(stack) = 1 THEN successful_backups + 1
                             ELSE successful_backups
    /\ UNCHANGED <<records, pc, pages, children, root_pages, drive, nextId,
                   backup_folder_id, rootIdx, failed_backups, folder_cache,
                   invoked, raised, createFailed, contentFailed, procs,
                   cfcalls>>

\* Lines 192-195: the root loop is exhausted, the summary is printed.
Finish ==
    /\ pc = "loop"
    /\ stack = <<>>
    /\ rootIdx >= Len(root_pages)
    /\ pc' = "done"
    /\ UNCHANGED <<records, pages, children, root_pages, drive, nextId,
                   backup_folder_id, rootIdx, stack, successful_backups,
                   failed_backups, folder_cache, histVars, procs, cfcalls>>

Next ==
    \/ Search
    \/ SearchFail
    \/ CreateMainFolder
    \/ CreateMainFolderFail
    \/ CallRoot
    \/ CreateFolderOK
    \/ CreateFolderFail
    \/ UploadContent
    \/ FetchContentFail
    \/ UploadFail
    \/ CallChild
    \/ Return
    \/ Finish

Spec == Init /\ [][Next]_vars

\* ------------------------------------------------- create_folder by steps
\* create_folder as the two Drive requests it makes, files().list (lines
\* 31-35) and files().create (lines 47-50), run by the processes of Procs
\* against one Drive.  procs[p] = [pc, name, parent, calls].
DriveNames == {FolderName(1), FolderName(2)}

\* What Drive may hold before the first call: a trashed folder, a file that
\* is not a folder and a live folder, all named FolderName(1) in DriveRoot.
Preexisting ==
    {[Folder(1, FolderName(1), DriveRoot) EXCEPT !.trashed = TRUE],
     Artifact(2, FolderName(1), DriveRoot, 0),
     Folder(3, FolderName(1), DriveRoot)}

LiveFolderIds(d) == {e.id : e \in {f \in d : f.folder /\ ~f.trashed}}

InitDrive ==
    /\ drive \in SUBSET Preexisting
    /\ nextId = 4
    /\ procs = [p \in Procs |-> [pc |-> "idle", name |-> FolderName(1),
                                 parent |-> DriveRoot, calls |-> 0]]
    /\ cfcalls = <<>>
    /\ records = <<>>
    /\ pc = "drive"
    /\ pages = <<>>
    /\ children = <<>>
    /\ root_pages = <<>>
    /\ backup_folder_id = NoFolder
    /\ rootIdx = 0
    /\ stack = <<>>
    /\ successful_backups = 0
    /\ failed_backups = 0
    /\ folder_cache = {}
    /\ invoked = <<>>
    /\ returned = {}
    /\ raised = {}
    /\ createFailed = {}
    /\ contentFailed = {}

Call(p, name, parent, id, created) ==
    [proc |-> p, name |-> name, parent |-> parent, id |-> id,
     created |-> created]

\* Lines 31-39: the lookup finds a folder, create_folder returns its id.
CF_LookupHit(p, name, parent, limit) ==
    /\ pc = "drive"
    /\ procs[p].pc = "idle"
    /\ procs[p].calls < limit
    /\ \E id \in LookupResult(drive, name, parent) :
          cfcalls' = Append(cfcalls, Call(p, name, parent, id, FALSE))
    /\ procs' = [procs EXCEPT ![p].calls = @ + 1]
    /\ UNCHANGED <<drive, nextId, runVars>>

\* Lines 31-38: the lookup finds nothing, create_folder goes on to create.
CF_LookupMiss(p, name, parent, limit) ==
    /\ pc = "drive"
    /\ procs[p].pc = "idle"
    /\ procs[p].calls < limit
    /\ LookupResult(drive, name, parent) = {}
    /\ procs' = [procs EXCEPT ![p].pc = "create", ![p].name = name,
                              ![p].parent = parent, ![p].calls = @ + 1]
    /\ UNCHANGED <<drive, nextId, cfcalls, runVars>>

\* Lines 42-51: the folder is created and its id returned.
CF_Create(p) ==
    /\ pc = "drive"
    /\ procs[p].pc = "create"
    /\ drive' = DriveCreate(drive, nextId, procs[p].name, procs[p].parent)
    /\ nextId' = nextId + 1
    /\ cfcalls' = Append(cfcalls, Call(p, procs[p].name, procs[p].parent,
                                       nextId, TRUE))
    /\ procs' = [procs EXCEPT ![p].pc = "idle"]
    /\ UNCHANGED runVars

\* files().list raises: lines 52-53, the call fails.
CF_LookupFail(p, limit) ==
    /\ pc = "drive"
    /\ procs[p].pc = "idle"
    /\ procs[p].calls < limit
    /\ procs' = [procs EXCEPT ![p].calls = @ + 1]
    /\ UNCHANGED <<drive, nextId, cfcalls, runVars>>

\* files().create raises: lines 52-53, the call fails.
CF_CreateFail(p) ==
    /\ pc = "drive"
    /\ procs[p].pc = "create"
    /\ procs' = [procs EXCEPT ![p].pc = "idle"]
    /\ UNCHANGED <<drive, nextId, cfcalls, runVars>>

CF_Step(p, limit) ==
    \/ \E name \in DriveNames, parent \in {DriveRoot} \cup LiveFolderIds(drive) :
          \/ CF_LookupHit(p, name, parent, limit)
          \/ CF_LookupMiss(p, name, parent, limit)
    \/ CF_Create(p)
    \/ CF_LookupFail(p, limit)
    \/ CF_CreateFail(p)

\* One process, no other writer.
NextSeq == CF_Step(1, MaxCalls)

SpecSeq == InitDrive /\ [][NextSeq]_vars

\* Two runs against the same Drive.
NextConc == \E p \in Procs : CF_Step(p, MaxConcCalls)

SpecConc == InitDrive /\ [][NextConc]_vars

\* ------------------------------------------------ vocabulary of the claims
Range(s) == {s[i] : i \in 1..Len(s)}

N == Len(records)

\* get_all_pages has returned.
Built == pc \in {"mkmain", "loop", "done"}

ParentOf(i) == IF i \in 1..N THEN records[i].parent ELSE i

RECURSIVE Ancestor(_, _)
Ancestor(i, k) == IF k = 0 THEN i ELSE ParentOf(Ancestor(i, k - 1))

OnCycle(i) == \E k \in 1..N : Ancestor(i, k) = i

InputHasCycle == \E i \in 1..N : OnCycle(i)

\* The parent chain of i ends at a page without parent.
Rooted(i) == Ancestor(i, N) \in {NoParent, EmptyParent}

RECURSIVE Closure(_, _)
Closure(S, k) ==
    IF k = 0 THEN S
    ELSE Closure(S \cup UNION {Range(children[x]) : x \in S}, k - 1)

\* The nodes of the forest: what a walk from the roots meets.
Reachable == Closure(Range(root_pages), N)

\* The proper descendants of x in the built hierarchy.
Desc(x) == Closure(Range(children[x]), N)

\* The positions of the forest that hold page i.
Positions(i) ==
    {<<0, k>> : k \in {j \in 1..Len(root_pages) : root_pages[j] = i}}
    \cup UNION {{<<x, k>> : k \in {j \in 1..Len(children[x]) :
                                      children[x][j] = i}} : x \in Reachable}

Visited == {invoked[k].page : k \in 1..Len(invoked)}

RootCallSeq == SelectSeq(invoked, LAMBDA c : c.depth = 1)

\* The pages backup_page was called for by run_backup, in call order.
RootCalls == [k \in 1..Len(RootCallSeq) |-> RootCallSeq[k].page]

CachedFolder(x) == {c[2] : c \in {d \in folder_cache : d[1] = x}}

Artifacts(x) == {f \in drive : ~f.folder /\ f.content = x}

PageFolders == {f \in drive : f.folder /\ f.name.kind = "page"}

MainFolders == {f \in drive : f.folder /\ f.name.kind = "main"}

\* The page that lists x among its children, 0 for a root.
Siblings(x) ==
    IF x \in Range(root_pages) THEN root_pages
    ELSE LET ps == {q \in 1..N : x \in Range(children[q])}
         IN IF ps = {} THEN <<>> ELSE children[CHOOSE q \in ps : TRUE]

LaterSiblings(x) ==
    LET sib == Siblings(x)
    IN {sib[j] : j \in {k \in 1..Len(sib) :
                           \E m \in 1..Len(sib) : sib[m] = x /\ m < k}}

LiveFolders(d, name, parent) ==
    {f \in d : f.folder /\ ~f.trashed /\ f.name = name /\ f.parent = parent}

\* ================================================================ claims

\* C1: in the forest returned by get_all_pages every fetched record whose
\* parent identifier is absent, empty or names an identifier that is not
\* among the fetched records is a root of the forest.
C1_OrphanIsRoot ==
    Built => \A i \in 1..N :
                 (\/ records[i].parent = NoParent
                  \/ records[i].parent = EmptyParent
                  \/ records[i].parent \notin 1..N)
                     => i \in Range(root_pages)

\* C2: for records with pairwise distinct identifiers, whose parent
\* pointers may dangle, each record occurs at exactly one position of the
\* forest and the number of nodes reachable from the roots is the number
\* of records.  Stated on the inputs whose parent pointers have no cycle.
C2_EveryRecordOnce ==
    (Built /\ ~InputHasCycle) =>
        /\ \A i \in 1..N : Cardinality(Positions(i)) = 1
        /\ Cardinality(Reachable) = N

\* The preconditions of C7: no collaborator call failed and the titles of
\* the records are pairwise distinct (Drive starts empty in InitRun).
NoFailure == pc = "done" /\ createFailed = {} /\ contentFailed = {}

DistinctTitles ==
    \A i, j \in 1..N : i # j => records[i].title # records[j].title

\* The container the run made for page x.
ContainerOf(x) == {f \in PageFolders : f.id \in CachedFolder(x)}

\* C7: in a run without failure, on an empty destination and for records
\* with distinct identifiers and titles, the mirror pass creates exactly
\* one top-level container, exactly one container per input record, that
\* of a record whose parent is not in the input directly under the
\* top-level container and that of any other non-root under its parent's
\* container, and uploads exactly one artifact per record into the
\* record's container.  Stated on the inputs whose parent pointers have no
\* cycle, as those of the scenario A, B (child of A), C (orphan) are.
C7_MirrorComplete ==
    (NoFailure /\ DistinctTitles /\ ~InputHasCycle) =>
        /\ Cardinality(MainFolders) = 1
        /\ Cardinality(PageFolders) = N
        /\ \A i \in 1..N :
              /\ Cardinality(ContainerOf(i)) = 1
              /\ Cardinality(Artifacts(i)) = 1
              /\ \A f \in Artifacts(i) : f.parent \in CachedFolder(i)
              /\ \A c \in ContainerOf(i) :
                    IF records[i].parent \in 1..N
                    THEN c.parent \in CachedFolder(records[i].parent)
                    ELSE c.parent = backup_folder_id

\* A step of the run can be taken.
CanStep ==
    \/ ENABLED Search
    \/ ENABLED CreateMainFolder
    \/ ENABLED CallRoot
    \/ ENABLED CreateFolderOK
    \/ ENABLED UploadContent
    \/ ENABLED CallChild
    \/ ENABLED Return
    \/ ENABLED Finish

\* C3 as claimed: whichever collaborator calls fail, the driver never
\* aborts early: the run ends in the summary, with backup_page called once
\* per root in forest order and successful + failed = number of roots.
C3_NeverAborts ==
    /\ pc # "failed"
    /\ pc = "done" => /\ RootCalls = root_pages
                      /\ successful_backups + failed_backups = Len(root_pages)

\* C3 amended: once get_all_pages and the creation of the main backup
\* folder have succeeded, whichever later collaborator calls fail, the
\* driver never aborts: backup_page is called at most once per root in
\* forest order, the run can always take a step until the summary, and at
\* the summary every root was called once and successful + failed is the
\* number of roots.  A run whose get_all_pages or main folder creation
\* fails calls backup_page for no root.
C3_NeverAbortsAfterStart ==
    /\ backup_folder_id # NoFolder => pc \in {"loop", "done"}
    /\ pc = "loop" => CanStep
    /\ pc \in {"loop", "done"} =>
          /\ RootCalls = SubSeq(root_pages, 1, rootIdx)
          /\ successful_backups + failed_backups
                 = rootIdx - (IF stack = <<>> THEN 0 ELSE 1)
    /\ pc = "done" => rootIdx = Len(root_pages)
    /\ pc = "failed" => invoked = <<>>

\* C3 witness: a finished run in which a root failed and a later root was
\* still backed up.
C3_Witness ==
    /\ pc = "done"
    /\ \E i, j \in 1..Len(root_pages) :
          /\ i < j
          /\ root_pages[i] \in raised
          /\ root_pages[j] \in returned

\* C4: a failure of the content fetch or of the upload of a node is
\* caught at that node: its backup_page does not raise and the run is not
\* aborted; at the summary the node has returned its folder name, every
\* child of it was called with the node's container as parent, every
\* later sibling was called, and a root whose own container was created
\* counts as successful whether or not its upload failed.
C4_ContentFailureIsolated ==
    /\ contentFailed \cap raised = {}
    /\ contentFailed # {} => pc \in {"loop", "done"}
    /\ \A x \in contentFailed : Artifacts(x) = {}
    /\ pc = "done" =>
          /\ \A x \in contentFailed :
                /\ x \in returned
                /\ \A c \in Range(children[x]) :
                      \E k \in 1..Len(invoked) :
                          /\ invoked[k].page = c
                          /\ invoked[k].parent \in CachedFolder(x)
                /\ LaterSiblings(x) \subseteq Visited
          /\ successful_backups
                 = Cardinality(Range(root_pages) \ createFailed)

\* C4 witness: a finished run in which the content of a root failed, the
\* root has a child and a later sibling, and the root counts as successful.
C4_Witness ==
    /\ pc = "done"
    /\ \E x \in contentFailed \cap Range(root_pages) :
          /\ children[x] # <<>>
          /\ LaterSiblings(x) # {}
          /\ x \in returned
          /\ successful_backups = Len(root_pages)

\* C5: when create_folder fails for a node's own container, the node's
\* backup_page raises to its caller, no folder_cache entry is written for
\* the node, no artifact is uploaded for it, and no descendant of it is
\* called, cached or uploaded; nothing else is aborted: at the summary
\* every later sibling of the node was called and the page that lists it
\* as a child has returned.
C5_CreateFailureAbortsSubtree ==
    /\ \A x \in createFailed :
          /\ x \in raised
          /\ CachedFolder(x) = {}
          /\ Artifacts(x) = {}
          /\ \A d \in Desc(x) :
                /\ d \notin Visited
                /\ CachedFolder(d) = {}
                /\ Artifacts(d) = {}
    /\ pc = "done" =>
          \A x \in createFailed :
              /\ LaterSiblings(x) \subseteq Visited
              /\ \A q \in 1..N :
                    (x \in Range(children[q]) /\ q \notin createFailed
                         /\ q \in Visited) => q \in returned

\* C5 witness: a finished run in which the container of a node with a
\* child and a later sibling could not be created.
C5_Witness ==
    /\ pc = "done"
    /\ \E x \in createFailed :
          /\ children[x] # <<>>
          /\ LaterSiblings(x) \cap returned # {}

\* C6: a failure in a proper descendant never propagates past the
\* descendant's parent: a backup_page call raises only if the creation of
\* its own container failed; at the summary every child of a page that
\* returned was called, and a root is counted in failed_backups if and
\* only if creating its own container failed, in successful_backups
\* otherwise.
C6_DescendantFailureContained ==
    /\ raised = createFailed
    /\ pc \in {"loop", "done"} =>
          /\ failed_backups = Cardinality(Range(RootCalls) \cap createFailed)
          /\ successful_backups = Cardinality(Range(RootCalls) \cap returned)
    /\ pc = "done" =>
          /\ \A r \in Range(root_pages) :
                /\ r \in raised <=> r \in createFailed
                /\ r \in returned <=> r \notin createFailed
          /\ \A q \in returned : Range(children[q]) \subseteq Visited

\* C6 witness: a finished run in which the container of a child could not
\* be created, a later sibling of it was backed up and their root counts
\* as successful.
C6_Witness ==
    /\ pc = "done"
    /\ failed_backups = 0
    /\ \E r \in Range(root_pages), c \in createFailed :
          /\ c \in Range(children[r])
          /\ LaterSiblings(c) \cap returned # {}
          /\ r \in returned

\* C10 as claimed: when the parent identifiers contain a cycle the walk of
\* run_backup does not terminate, so the summary is never reached.
C10_CycleNeverTerminates == InputHasCycle => pc # "done"

\* C10 amended: for every input, with or without a cycle, the walk
\* terminates: backup_page is called at most once per record, only for
\* records whose parent chain ends at a record without parent, the
\* recursion is never deeper than the number of records, and the run can
\* always take a step until the summary; the records on a cycle, and
\* those below one, are in no tree of the forest and are never visited.
C10_WalkTerminates ==
    /\ \A k \in 1..Len(invoked) : Rooted(invoked[k].page)
    /\ \A j, k \in 1..Len(invoked) :
          invoked[j].page = invoked[k].page => j = k
    /\ Len(stack) <= N
    /\ pc = "loop" => CanStep
    /\ Built => Reachable = {i \in 1..N : Rooted(i)}

\* C10 witness: a run over an input with a cycle that has backed up a
\* root and reached the summary.
C10_Witness ==
    /\ pc = "done"
    /\ InputHasCycle
    /\ returned # {}

\* With the collaborators answering every call, the run keeps stepping.
FairSpec == Spec /\ WF_vars(Next)

\* Every run ends, in the summary or in "Backup failed".
Termination == <>(pc \in {"done", "failed"})

SamePair(a, b) == a.name = b.name /\ a.parent = b.parent

\* C8: in one sequential process with no other writer, any two successful
\* create_folder calls with the same (folder_name, parent_id) return the
\* same id, and Drive holds at most one folder that is not trashed for
\* every (name, parent) create_folder was called with.
C8_CreateFolderIdempotent ==
    /\ \A i, j \in 1..Len(cfcalls) :
          SamePair(cfcalls[i], cfcalls[j]) => cfcalls[i].id = cfcalls[j].id
    /\ \A k \in 1..Len(cfcalls) :
          /\ Cardinality(LiveFolders(drive, cfcalls[k].name,
                                     cfcalls[k].parent)) = 1
          /\ \E f \in LiveFolders(drive, cfcalls[k].name, cfcalls[k].parent) :
                f.id = cfcalls[k].id

\* C8 witness: a call created a folder and a later call with the same
\* name and parent returned.
C8_Witness ==
    \E i, j \in 1..Len(cfcalls) :
        /\ i < j
        /\ SamePair(cfcalls[i], cfcalls[j])
        /\ cfcalls[i].created

\* Two calls of different processes that both went on to create a folder
\* of the same name under the same parent.
RacingCalls ==
    {c \in (1..Len(cfcalls)) \X (1..Len(cfcalls)) :
        /\ cfcalls[c[1]].proc # cfcalls[c[2]].proc
        /\ SamePair(cfcalls[c[1]], cfcalls[c[2]])
        /\ cfcalls[c[1]].created
        /\ cfcalls[c[2]].created}

\* C9: nothing guards the create that follows a lookup which found
\* nothing: a process whose lookup found nothing can create whatever
\* another process did meanwhile, and whenever two runs both created for
\* the same (name, parent), Drive holds two folders of that name under
\* that parent, one per call.
C9_NoGuardBetweenLookupAndCreate ==
    /\ \A p \in DOMAIN procs : procs[p].pc = "create" => ENABLED CF_Create(p)
    /\ \A c \in RacingCalls :
          /\ cfcalls[c[1]].id # cfcalls[c[2]].id
          /\ {cfcalls[c[1]].id, cfcalls[c[2]].id}
                \subseteq {f.id : f \in LiveFolders(drive, cfcalls[c[1]].name,
                                                    cfcalls[c[1]].parent)}

\* C9 witness: both runs looked up the same (name, parent), both found
\* nothing, both created: two folders of the same name under one parent.
C9_Witness ==
    \E c \in RacingCalls :
        Cardinality(LiveFolders(drive, cfcalls[c[1]].name,
                                cfcalls[c[1]].parent)) >= 2

====
